---- MODULE Spec2Model ----
(***************************************************************************)
(* Model of the two command-line utilities of llm-anthropic-vertex and of  *)
(* the tool-chain scenario of its test suite:                              *)
(*   - scripts/check_encoded_strings.py : cassette rewriting (SpecScript)  *)
(*   - gcloud_setup.py                  : credential preflight (SpecSetup) *)
(*   - tests/test_anthropic.py test_tools : tool-call chain    (SpecChain) *)
(* The three programs share no state; each specification drives its own    *)
(* variables and leaves the others at their idle values.                   *)
(***************************************************************************)
EXTENDS Integers, Sequences, FiniteSets, TLC

VARIABLES
    \* ---- check_encoded_strings.py
    disk,        \* file -> content on disk
    disk0,       \* file -> content on disk when the script started
    idx,         \* position of main's for loop in file_paths
    spc,         \* "loop" | "prompt" | "answered" | "done" | "exited"
    new_content, \* process_yaml_file's new_content while prompting
    processed,   \* main's counter of modified files
    typed,       \* what the last input() returned, as typed
    response,    \* typed.strip().lower()
    outcome,     \* file -> how main's loop body ended for it
    summary,     \* the summary block was printed
    status,      \* "running", or "exit0" once sys.exit(0) was called
    \* ---- gcloud_setup.py
    env,         \* os.environ: name -> [set, val]
    env0,        \* os.environ when the tool started
    platform,    \* sys.platform
    mpc,         \* position in main
    result,      \* check -> "none" | "running" | "ok" | "failed"
    cred_type,   \* main's cred_type
    project,     \* main's project
    region,      \* get_region's region
    region_proc, \* what `gcloud config get-value compute/region` gave
    typed_use,   \* what was typed at "Use this region? [Y/n]"
    typed_region,\* what was typed at "Enter your region"
    message,     \* the last warning or verdict line printed
    exit_code,   \* what main returned: -1 while it has not
    \* ---- check_credential_expiry, get_adc_path called on their own
    creds,       \* the credentials dict
    now,         \* datetime.now(timezone.utc)
    cred_result, \* what check_credential_expiry did
    fs,          \* the paths that exist
    adc_path,    \* what get_adc_path returned
    \* ---- tests/test_anthropic.py, test_tools
    names,       \* the list the tool pops from
    names0,      \* that list when the chain started
    responses,   \* chain_response._responses
    results,     \* tool results collected for the next prompt
    cpc,         \* "model" | "tools" | "done"
    next_id      \* number of tool calls made so far

scriptVars == <<disk, disk0, idx, spc, new_content, processed, typed, response,
                outcome, summary, status>>

setupVars == <<env, env0, platform, mpc, result, cred_type, project, region,
               region_proc, typed_use, typed_region, message, exit_code>>

funVars == <<creds, now, cred_result, fs, adc_path>>

chainVars == <<names, names0, responses, results, cpc, next_id>>

vars == <<scriptVars, setupVars, funVars, chainVars>>

(***************************************************************************)
(* The values a program's variables keep under the specification of        *)
(* another program.                                                        *)
(***************************************************************************)
IdleScript ==
    /\ disk = <<>> /\ disk0 = <<>> /\ idx = 0 /\ spc = "idle"
    /\ new_content = <<>> /\ processed = 0 /\ typed = <<>> /\ response = <<>>
    /\ outcome = <<>> /\ summary = FALSE /\ status = "idle"

IdleSetup ==
    /\ env = <<>> /\ env0 = <<>> /\ platform = "" /\ mpc = "idle"
    /\ result = <<>> /\ cred_type = "" /\ project = <<>> /\ region = <<>>
    /\ region_proc = <<>> /\ typed_use = <<>> /\ typed_region = <<>>
    /\ message = "" /\ exit_code = -1

IdleFun ==
    /\ creds = <<>> /\ now = 0 /\ cred_result = <<>> /\ fs = {} /\ adc_path = <<>>

IdleChain ==
    /\ names = <<>> /\ names0 = <<>> /\ responses = <<>> /\ results = <<>>
    /\ cpc = "idle" /\ next_id = 0

(***************************************************************************)
(* Bounds                                                                  *)
(***************************************************************************)
NumFiles == 2
MaxInteractions == 2
MaxTime == 2
MaxNames == 3
MaxCalls == 2
MaxResponses == 3

(***************************************************************************)
(* Strings typed at a prompt are sequences of characters.                  *)
(***************************************************************************)
Whitespace == {" ", "\t", "\n"}

\* str.lower() on one character
LowerChar(c) ==
    CASE c = "Y" -> "y" [] c = "E" -> "e" [] c = "S" -> "s" [] c = "N" -> "n"
      [] c = "O" -> "o" [] c = "Q" -> "q" [] c = "U" -> "u" [] c = "I" -> "i"
      [] c = "T" -> "t" [] OTHER -> c

\* Variant of Lower: the answer is compared as typed.
Lower_Identity(s) == s

\* str.lower()
Lower(s) == [i \in 1..Len(s) |-> LowerChar(s[i])]

RECURSIVE LStrip(_)
LStrip(s) == IF s # <<>> /\ Head(s) \in Whitespace THEN LStrip(Tail(s)) ELSE s

RECURSIVE RStrip(_)
RStrip(s) ==
    IF s # <<>> /\ s[Len(s)] \in Whitespace
    THEN RStrip(SubSeq(s, 1, Len(s) - 1)) ELSE s

\* str.strip()
Strip(s) == RStrip(LStrip(s))

(***************************************************************************)
(* check_encoded_strings.py                                                *)
(***************************************************************************)

\* ---- values held in a cassette ------------------------------------------
\* A response body.string: a str, or bytes (a !!binary scalar).  For bytes,
\* gz says whether the bytes between the surrounding whitespace are a gzip
\* stream of utf-8 text, text is that text, and pad says whether whitespace
\* surrounds them.
StrBody(t) == [k |-> "str", gz |-> FALSE, text |-> t, pad |-> FALSE]
GzipBody(t, p) == [k |-> "bytes", gz |-> TRUE, text |-> t, pad |-> p]

\* An interaction: its response body and whether its response headers hold
\* Content-Encoding.
Interaction(b, e) == [body |-> b, enc |-> e]

\* The interactions a recorded cassette is built from.
Interactions ==
    { Interaction(StrBody("a"), FALSE),
      Interaction(GzipBody("a", FALSE), TRUE),
      Interaction(GzipBody("", FALSE), TRUE) }

RECURSIVE SeqsUpTo(_, _)
SeqsUpTo(S, n) ==
    IF n = 0 THEN {<<>>}
    ELSE LET shorter == SeqsUpTo(S, n - 1)
         IN shorter \cup {Append(s, x) : s \in {t \in shorter : Len(t) = n - 1}, x \in S}

\* The text of a file: whether yaml.safe_load accepts it, its layout (as
\* recorded, or as yaml.dump writes it) and the interactions it holds.
Text(ok, fmt, inter) == [parses |-> ok, fmt |-> fmt, inter |-> inter]

\* A file: the suffix of its path and its text.
File(sfx, text) == [suffix |-> sfx, text |-> text]

FileStates ==
    { File(".txt", Text(FALSE, "recorded", <<>>)),
      File(".yaml", Text(FALSE, "recorded", <<>>)) }
    \cup { File(".yaml", Text(TRUE, "recorded", s)) :
              s \in SeqsUpTo(Interactions, MaxInteractions) }

\* ---- decompress_gzip_string ---------------------------------------------
\* bytes.strip()
BytesStrip(b) == [b EXCEPT !.pad = FALSE]

\* gzip.decompress(data).decode('utf-8'); None when it raises.
decompress_gzip_string(b) ==
    IF b.gz /\ ~b.pad THEN [none |-> FALSE, text |-> b.text]
    ELSE [none |-> TRUE, text |-> ""]

\* Python truth of the value decompress_gzip_string returned
Truthy(d) == ~d.none /\ d.text # ""

\* ---- process_yaml_file: the loop over interactions ----------------------
\* One pass of the loop body: the interaction as left in memory, whether
\* modified was set, and whether headers.pop raised KeyError.
ProcessInteraction(x) ==
    IF x.body.k = "bytes"
    THEN LET d == decompress_gzip_string(BytesStrip(x.body))
         IN IF Truthy(d)
            THEN IF x.enc
                 THEN [inter |-> Interaction(StrBody(d.text), FALSE),
                       modified |-> TRUE, raised |-> FALSE]
                 ELSE [inter |-> Interaction(StrBody(d.text), FALSE),
                       modified |-> FALSE, raised |-> TRUE]
            ELSE [inter |-> x, modified |-> FALSE, raised |-> FALSE]
    ELSE [inter |-> x, modified |-> FALSE, raised |-> FALSE]

RECURSIVE ProcessInteractions(_, _, _)
ProcessInteractions(data, i, modified) ==
    IF i > Len(data) THEN [data |-> data, modified |-> modified, raised |-> FALSE]
    ELSE LET r == ProcessInteraction(data[i])
         IN IF r.raised
            THEN [data |-> [data EXCEPT ![i] = r.inter], modified |-> modified,
                  raised |-> TRUE]
            ELSE ProcessInteractions([data EXCEPT ![i] = r.inter], i + 1,
                                     modified \/ r.modified)

\* yaml.dump(data, ...)
YamlDump(data) == Text(TRUE, "dumped", data)

\* ---- the confirmation loop ----------------------------------------------
\* Variant of IsYes: an empty answer counts as yes.
IsYes_EmptyIsYes(r) == r \in {<<>>, <<"y">>, <<"y", "e", "s">>}

IsYes(r) == r \in {<<"y">>, <<"y", "e", "s">>}
IsNo(r) == r \in {<<"n">>, <<"n", "o">>}
IsQuit(r) == r \in {<<"q">>, <<"q", "u", "i", "t">>}

\* What the user may type at the [y]es / [n]o / [q]uit? prompt.
AnswerInputs ==
    { <<"y">>, <<" ", "Y", "E", "S", "\n">>, <<"N", "o", " ">>,
      <<"q">>, <<"Q", "u", "i", "t">>, <<>>, <<"o", "k">> }

NoAnswer == <<>>
NoContent == Text(FALSE, "", <<>>)

InitScript ==
    /\ disk \in [1..NumFiles -> FileStates]
    /\ disk0 = disk
    /\ idx = 1
    /\ spc = "loop"
    /\ new_content = NoContent
    /\ processed = 0
    /\ typed = NoAnswer
    /\ response = NoAnswer
    /\ outcome = [f \in 1..NumFiles |-> "pending"]
    /\ summary = FALSE
    /\ status = "running"
    /\ IdleSetup /\ IdleFun /\ IdleChain

\* main's loop body ended for the current file: on to the next one.
NextFile(how) ==
    /\ outcome' = [outcome EXCEPT ![idx] = how]
    /\ idx' = idx + 1
    /\ spc' = "loop"
    /\ new_content' = NoContent
    /\ typed' = NoAnswer
    /\ response' = NoAnswer

\* main, lines 174-176: a file that is no .yaml/.yml file is skipped.
SkipFile ==
    /\ UNCHANGED <<setupVars, funVars, chainVars>>
    /\ spc = "loop" /\ idx <= NumFiles
    /\ disk[idx].suffix \notin {".yaml", ".yml"}
    /\ NextFile("not_yaml")
    /\ UNCHANGED <<disk, disk0, processed, summary, status>>

\* process_yaml_file up to its first input(): load, decompress, dump, diff.
ProcessStart ==
    /\ UNCHANGED <<setupVars, funVars, chainVars>>
    /\ spc = "loop" /\ idx <= NumFiles
    /\ disk[idx].suffix \in {".yaml", ".yml"}
    /\ IF ~disk[idx].text.parses
       THEN NextFile("parse_error")
       ELSE LET r == ProcessInteractions(disk[idx].text.inter, 1, FALSE)
            IN IF r.raised THEN NextFile("error")
               ELSE IF ~r.modified THEN NextFile("no_gzip")
               ELSE /\ new_content' = YamlDump(r.data)
                    /\ spc' = "prompt"
                    /\ UNCHANGED <<outcome, idx, typed, response>>
    /\ UNCHANGED <<disk, disk0, processed, summary, status>>

\* line 123: response = input(...).strip().lower()
ReadAnswer ==
    /\ UNCHANGED <<setupVars, funVars, chainVars>>
    /\ spc = "prompt"
    /\ \E a \in AnswerInputs :
         /\ typed' = a
         /\ response' = Lower(Strip(a))
    /\ spc' = "answered"
    /\ UNCHANGED <<disk, disk0, idx, new_content, processed, outcome, summary,
                   status>>

\* line 123 when stdin is at end of file: input() raises EOFError, which
\* main's except Exception reports before going on to the next file.
ReadEOF ==
    /\ UNCHANGED <<setupVars, funVars, chainVars>>
    /\ spc = "prompt"
    /\ NextFile("error")
    /\ UNCHANGED <<disk, disk0, processed, summary, status>>

\* lines 124-134: the if/elif chain on the answer.
HandleAnswer ==
    /\ UNCHANGED <<setupVars, funVars, chainVars>>
    /\ spc = "answered"
    /\ IF IsYes(response)
       THEN /\ disk' = [disk EXCEPT ![idx].text = new_content]
            /\ processed' = processed + 1
            /\ NextFile("saved")
            /\ UNCHANGED <<status>>
       ELSE IF IsNo(response)
       THEN /\ NextFile("skipped")
            /\ UNCHANGED <<disk, processed, status>>
       ELSE IF IsQuit(response)
       THEN /\ spc' = "exited"
            /\ status' = "exit0"
            /\ UNCHANGED <<disk, processed, idx, new_content, typed, response,
                           outcome>>
       ELSE /\ spc' = "prompt"
            /\ UNCHANGED <<disk, processed, status, idx, new_content, typed,
                           response, outcome>>
    /\ UNCHANGED <<disk0, summary>>

\* main, lines 186-188: the summary after the last file.
Summary ==
    /\ UNCHANGED <<setupVars, funVars, chainVars>>
    /\ spc = "loop" /\ idx > NumFiles
    /\ spc' = "done"
    /\ summary' = TRUE
    /\ UNCHANGED <<disk, disk0, idx, new_content, processed, typed, response,
                   outcome, status>>

NextScript ==
    \/ SkipFile
    \/ ProcessStart
    \/ ReadAnswer
    \/ ReadEOF
    \/ HandleAnswer
    \/ Summary

SpecScript == InitScript /\ [][NextScript]_vars

(***************************************************************************)
(* Properties of check_encoded_strings.py                                  *)
(***************************************************************************)
FileIds == 1..NumFiles

\* C1: a file on disk changes only in the step that handles an answer of
\* 'y' or 'yes' to the prompt for that very file; every other step of the
\* script (skip, parse error, no gzip body, 'n', 'q', an unrecognised
\* answer, end of input) leaves every file as it was.
C1_OverwriteOnlyAfterYes ==
    [][\A f \in FileIds :
          disk'[f] # disk[f] =>
             /\ spc = "answered" /\ idx = f
             /\ response \in {<<"y">>, <<"y", "e", "s">>}
             /\ disk'[f] = File(disk[f].suffix, new_content)]_vars

C1_Witness ==
    \E f \in FileIds : outcome[f] = "saved" /\ disk[f] # disk0[f]

\* C2: in every file the user confirmed, each body that held gzip data is
\* now the decompressed text and its response has no Content-Encoding
\* header, and each body that was text is as it was.
C2_ConfirmedFileFullyDecompressed ==
    \A f \in FileIds :
       outcome[f] = "saved" =>
          /\ Len(disk[f].text.inter) = Len(disk0[f].text.inter)
          /\ \A i \in 1..Len(disk0[f].text.inter) :
                LET old == disk0[f].text.inter[i]
                    new == disk[f].text.inter[i]
                IN /\ (old.body.k = "bytes" /\ old.body.gz) =>
                          (new.body = StrBody(old.body.text) /\ ~new.enc)
                   /\ old.body.k = "str" => new = old

\* The strings of AnswerInputs by what the prompt's legend makes of them.
TypedYes == {<<"y">>, <<" ", "Y", "E", "S", "\n">>}
TypedNo == {<<"N", "o", " ">>}
TypedQuit == {<<"q">>, <<"Q", "u", "i", "t">>}

LoopVarsUnchanged ==
    UNCHANGED <<disk, disk0, idx, new_content, processed, outcome, summary, status>>

\* One step of the loop from the answer just read.
C10_LoopStep ==
    spc = "answered" =>
       /\ typed \in TypedYes =>
             spc' = "loop" /\ idx' = idx + 1 /\ outcome'[idx] = "saved"
       /\ typed \in TypedNo =>
             spc' = "loop" /\ idx' = idx + 1 /\ outcome'[idx] = "skipped"
       /\ typed \in TypedQuit => spc' = "exited" /\ status' = "exit0"
       /\ typed \notin (TypedYes \cup TypedNo \cup TypedQuit) =>
             spc' = "prompt" /\ LoopVarsUnchanged

C10_AfterQuit ==
    spc = "exited" =>
       /\ status = "exit0" /\ ~summary
       /\ \A f \in FileIds : f >= idx => outcome[f] = "pending" /\ disk[f] = disk0[f]

\* C10: an answer of y/yes, n/no or q/quit in any case and with surrounding
\* whitespace ends the confirmation loop (saved, skipped, exit 0); any other
\* answer returns to the prompt and changes nothing else; after 'q' the
\* script takes no further step: the files not yet reached stay pending and
\* untouched, and no summary is printed.
C10_ConfirmationLoop ==
    /\ [][C10_LoopStep]_vars
    /\ [][spc = "exited" => UNCHANGED vars]_vars
    /\ []C10_AfterQuit

C10_Witness ==
    /\ spc = "exited" /\ idx < NumFiles
    /\ typed = <<"Q", "u", "i", "t">>
    /\ outcome[idx + 1] = "pending"

(***************************************************************************)
(* gcloud_setup.py: os.environ                                             *)
(***************************************************************************)
EnvNames ==
    {"GOOGLE_APPLICATION_CREDENTIALS", "APPDATA", "GOOGLE_CLOUD_PROJECT",
     "GOOGLE_CLOUD_REGION", "GCP_REGION"}

Unset == [set |-> FALSE, val |-> <<>>]
EnvVal(v) == [set |-> TRUE, val |-> v]

\* Python truth of os.environ.get(name): set and not the empty string
EnvTruthy(e, name) == e[name].set /\ e[name].val # <<>>

(***************************************************************************)
(* gcloud_setup.py: get_adc_path.  A path is the sequence of its parts.    *)
(***************************************************************************)
CurDir == <<".">>
Home == <<"~">>
AdcFileName == "application_default_credentials.json"

\* pathlib.Path(s): the empty string is the current directory
PathOf(s) == IF s = <<>> THEN CurDir ELSE s

\* pathlib's p / q
JoinPath(p, q) == IF p = CurDir THEN q ELSE p \o q

\* lines 83-86: the default ADC location of the platform
DefaultAdcPath(e, plat) ==
    IF plat = "win32"
    THEN JoinPath(PathOf(IF e["APPDATA"].set THEN e["APPDATA"].val ELSE <<>>),
                  <<"gcloud", AdcFileName>>)
    ELSE JoinPath(Home, <<".config", "gcloud", AdcFileName>>)

NonePath == [found |-> FALSE, path |-> <<>>]
FoundPath(p) == [found |-> TRUE, path |-> p]

\* Variant of get_adc_path: the variable's path is returned unchecked.
get_adc_path_NoExistsCheck(e, plat, exists) ==
    IF e["GOOGLE_APPLICATION_CREDENTIALS"].set
    THEN FoundPath(PathOf(e["GOOGLE_APPLICATION_CREDENTIALS"].val))
    ELSE IF DefaultAdcPath(e, plat) \in exists
         THEN FoundPath(DefaultAdcPath(e, plat)) ELSE NonePath

get_adc_path(e, plat, exists) ==
    IF /\ e["GOOGLE_APPLICATION_CREDENTIALS"].set
       /\ PathOf(e["GOOGLE_APPLICATION_CREDENTIALS"].val) \in exists
    THEN FoundPath(PathOf(e["GOOGLE_APPLICATION_CREDENTIALS"].val))
    ELSE IF DefaultAdcPath(e, plat) \in exists
         THEN FoundPath(DefaultAdcPath(e, plat)) ELSE NonePath

(***************************************************************************)
(* gcloud_setup.py: check_credential_expiry                                *)
(***************************************************************************)
Times == 0..MaxTime

\* creds['expiry']: whether the key is there, whether its value is a str,
\* how the str is written (with a trailing Z, with a +00:00 offset, without
\* any offset, or not as a date at all) and the instant it names.
Expiry(present, isstr, form, t) ==
    [present |-> present, str |-> isstr, form |-> form, t |-> t]

ExpiryInputs ==
    { Expiry(FALSE, FALSE, "garbage", 0), Expiry(TRUE, FALSE, "garbage", 0),
      Expiry(TRUE, TRUE, "garbage", 0) }
    \cup { Expiry(TRUE, TRUE, f, t) : f \in {"Z", "offset", "naive"}, t \in Times }

\* The credentials dict: its 'type' ("<missing>" when it has none) and expiry.
CredsInputs ==
    { [type |-> ty, expiry |-> e] :
        ty \in {"service_account", "authorized_user", "external_account", "<missing>"},
        e \in ExpiryInputs }

\* creds.get('type', 'unknown')
CredType(c) == IF c.type = "<missing>" THEN "unknown" ELSE c.type

\* creds['expiry'].replace('Z', '+00:00')
ReplaceZ(e) == IF e.form = "Z" THEN [e EXCEPT !.form = "offset"] ELSE e

\* datetime.fromisoformat: ValueError unless the text is a date with or
\* without an offset; a date without offset gives a naive datetime.
FromIsoFormat(e) ==
    IF e.form = "offset" THEN [err |-> FALSE, aware |-> TRUE, t |-> e.t]
    ELSE IF e.form = "naive" THEN [err |-> FALSE, aware |-> FALSE, t |-> e.t]
    ELSE [err |-> TRUE, aware |-> FALSE, t |-> 0]

Returned(valid, type) == [raised |-> "", valid |-> valid, type |-> type]
Raised(exc) == [raised |-> exc, valid |-> FALSE, type |-> ""]

check_credential_expiry(c, n) ==
    IF CredType(c) = "service_account" THEN Returned(TRUE, "service_account")
    ELSE IF CredType(c) = "authorized_user"
    THEN IF c.expiry.present
         THEN IF ~c.expiry.str
              THEN Returned(TRUE, "user")       \* AttributeError, caught
              ELSE LET expiry == FromIsoFormat(ReplaceZ(c.expiry))
                   IN IF expiry.err THEN Returned(TRUE, "user")  \* ValueError, caught
                      \* expiry < now with a naive expiry and an aware now
                      ELSE IF ~expiry.aware THEN Raised("TypeError")
                      ELSE IF expiry.t < n THEN Returned(FALSE, "user")
                      ELSE Returned(TRUE, "user")
         ELSE Returned(TRUE, "user")
    ELSE Returned(TRUE, "other")

(***************************************************************************)
(* check_credential_expiry and get_adc_path, each called once on inputs    *)
(* drawn from the bounded sets above.                                      *)
(***************************************************************************)
Pending == [raised |-> "pending", valid |-> FALSE, type |-> ""]
PendingPath == [found |-> FALSE, path |-> <<"pending">>]

InitCred ==
    /\ creds \in CredsInputs
    /\ now \in Times
    /\ cred_result = Pending
    /\ fs = {} /\ adc_path = <<>>
    /\ IdleScript /\ IdleSetup /\ IdleChain

CallCheckCredentialExpiry ==
    /\ cred_result = Pending
    /\ cred_result' = check_credential_expiry(creds, now)
    /\ UNCHANGED <<creds, now, fs, adc_path, scriptVars, setupVars, chainVars>>

SpecCred == InitCred /\ [][CallCheckCredentialExpiry]_vars

KeyPath == <<"key.json">>
AppData == <<"AppData">>

AdcPaths ==
    { CurDir, KeyPath,
      <<"~", ".config", "gcloud", AdcFileName>>,
      <<"AppData", "gcloud", AdcFileName>>,
      <<"gcloud", AdcFileName>> }

AdcEnvs ==
    { [n \in EnvNames |->
         IF n = "GOOGLE_APPLICATION_CREDENTIALS" THEN g
         ELSE IF n = "APPDATA" THEN a ELSE Unset] :
        g \in {Unset, EnvVal(<<>>), EnvVal(KeyPath)},
        a \in {Unset, EnvVal(AppData)} }

InitAdc ==
    /\ env \in AdcEnvs
    /\ env0 = env
    /\ platform \in {"linux", "win32"}
    /\ fs \in SUBSET AdcPaths
    /\ adc_path = PendingPath
    /\ mpc = "idle" /\ result = <<>> /\ cred_type = "" /\ project = <<>>
    /\ region = <<>> /\ region_proc = <<>> /\ typed_use = <<>>
    /\ typed_region = <<>> /\ message = "" /\ exit_code = -1
    /\ creds = <<>> /\ now = 0 /\ cred_result = <<>>
    /\ IdleScript /\ IdleChain

CallGetAdcPath ==
    /\ adc_path = PendingPath
    /\ adc_path' = get_adc_path(env, platform, fs)
    /\ UNCHANGED <<creds, now, cred_result, fs, scriptVars, setupVars,
                   chainVars>>

SpecAdc == InitAdc /\ [][CallGetAdcPath]_vars

\* The credentials are of an authorized user and carry an expiry that
\* parses to an instant before now.
C5_ParsesBeforeNow ==
    /\ creds.type = "authorized_user"
    /\ creds.expiry.present /\ creds.expiry.str
    /\ creds.expiry.form \in {"Z", "offset", "naive"}
    /\ creds.expiry.t < now

\* C5: check_credential_expiry returns (False, 'user') exactly for
\* authorized_user credentials whose expiry parses to an instant before now;
\* it returns (True, 'service_account') for service accounts, (True, 'user')
\* for every other authorized_user and (True, 'other') for every other type.
C5_ExpiryVerdict ==
    cred_result # Pending =>
       /\ cred_result.raised = ""
       /\ cred_result.valid = ~C5_ParsesBeforeNow
       /\ cred_result.type =
             IF creds.type = "service_account" THEN "service_account"
             ELSE IF creds.type = "authorized_user" THEN "user" ELSE "other"

\* The path GOOGLE_APPLICATION_CREDENTIALS names, and the default path.
C6_EnvPath ==
    IF env["GOOGLE_APPLICATION_CREDENTIALS"].val = <<>> THEN <<".">>
    ELSE env["GOOGLE_APPLICATION_CREDENTIALS"].val

C6_EnvPathExists ==
    env["GOOGLE_APPLICATION_CREDENTIALS"].set /\ C6_EnvPath \in fs

C6_DefaultPath ==
    IF platform = "win32"
    THEN IF env["APPDATA"].set
         THEN <<"AppData", "gcloud", "application_default_credentials.json">>
         ELSE <<"gcloud", "application_default_credentials.json">>
    ELSE <<"~", ".config", "gcloud", "application_default_credentials.json">>

\* C6: get_adc_path returns the path of GOOGLE_APPLICATION_CREDENTIALS when
\* the variable is set and that path exists; otherwise the platform's
\* default ADC path when that exists; None exactly when neither exists.
C6_AdcPathPrecedence ==
    adc_path # PendingPath =>
       /\ C6_EnvPathExists => adc_path = [found |-> TRUE, path |-> C6_EnvPath]
       /\ (~C6_EnvPathExists /\ C6_DefaultPath \in fs) =>
             adc_path = [found |-> TRUE, path |-> C6_DefaultPath]
       /\ ~adc_path.found <=> (~C6_EnvPathExists /\ C6_DefaultPath \notin fs)

\* the variable points to a missing file and the default location is used
C6_Witness ==
    /\ adc_path # PendingPath
    /\ env["GOOGLE_APPLICATION_CREDENTIALS"].set /\ ~C6_EnvPathExists
    /\ adc_path.found /\ adc_path.path = C6_DefaultPath

(***************************************************************************)
(* gcloud_setup.py: main and the checks it calls                           *)
(***************************************************************************)
Checks == <<"gcloud", "adc", "project", "region", "api">>

\* What subprocess.run gave: FileNotFoundError, or a return code and stdout.
ProcResult(notfound, rc, out) == [notfound |-> notfound, rc |-> rc, out |-> out]
NoProc == ProcResult(FALSE, -1, <<"<not run>">>)
NotTyped == <<"<not typed>">>

UnsetMarker == <<"(", "u", "n", "s", "e", "t", ")">>
P1 == <<"p", "1">>
P2 == <<"p", "2">>
UsCentral1 == <<"u", "s", "-", "c", "e", "n", "t", "r", "a", "l", "1">>
UsEast4 == <<"u", "s", "-", "e", "a", "s", "t", "4">>
EuropeWest1 == <<"e", "u", "r", "o", "p", "e", "-", "w", "e", "s", "t", "1">>
EuropeWest4 == <<"e", "u", "r", "o", "p", "e", "-", "w", "e", "s", "t", "4">>
AsiaSoutheast1 ==
    <<"a", "s", "i", "a", "-", "s", "o", "u", "t", "h", "e", "a", "s", "t", "1">>
UsWest1 == <<"u", "s", "-", "w", "e", "s", "t", "1">>

\* `gcloud --version`: found or not, return code
VersionProcs ==
    { ProcResult(TRUE, -1, <<>>), ProcResult(FALSE, 0, <<>>), ProcResult(FALSE, 1, <<>>) }

\* `gcloud config get-value project`
ProjectProcs ==
    { ProcResult(TRUE, -1, <<>>), ProcResult(FALSE, 1, <<>>), ProcResult(FALSE, 0, <<>>),
      ProcResult(FALSE, 0, UnsetMarker \o <<"\n">>), ProcResult(FALSE, 0, P1 \o <<"\n">>) }

\* `gcloud config get-value compute/region`
RegionProcs ==
    { ProcResult(TRUE, -1, <<>>), ProcResult(FALSE, 1, <<>>), ProcResult(FALSE, 0, <<"\n">>),
      ProcResult(FALSE, 0, UnsetMarker \o <<"\n">>), ProcResult(FALSE, 0, UsEast4 \o <<"\n">>) }

\* `gcloud services list ...`: stdout names aiplatform.googleapis.com or not
ApiProcs ==
    { ProcResult(TRUE, -1, <<>>), ProcResult(FALSE, 1, <<>>), ProcResult(FALSE, 0, <<>>),
      ProcResult(FALSE, 0, <<"aiplatform.googleapis.com">>) }

\* What the user may type at a [Y/n] prompt
UseInputs == { <<>>, <<"y">>, <<"Y", " ">>, <<"n">>, <<"y", "e", "s">> }

\* What the user may type at "Enter your region"
RegionInputs ==
    { <<>>, <<" ">>, UsWest1, UsCentral1, <<" ">> \o UsEast4 \o <<" ">>,
      <<"u", "s", "w", "e", "s", "t">>, <<"a", "-", "b", "-", "c">>, <<"-", "-">> }

\* The application_default_credentials.json the tool may find
AdcFile(readable, json, c) == [readable |-> readable, json |-> json, creds |-> c]
AdcFiles ==
    { AdcFile(FALSE, FALSE, <<>>), AdcFile(TRUE, FALSE, <<>>) }
    \cup { AdcFile(TRUE, TRUE, c) : c \in CredsInputs }

\* lines 52-71
check_gcloud_installed(r) == ~r.notfound /\ r.rc = 0

\* lines 124-168: (is_valid, cred_type), or the exception that escapes
check_adc(e, plat, exists, file, n) ==
    IF ~get_adc_path(e, plat, exists).found THEN Returned(FALSE, "None")
    ELSE IF ~file.readable \/ ~file.json THEN Returned(FALSE, "None")
    ELSE check_credential_expiry(file.creds, n)

NoneStr == [some |-> FALSE, val |-> <<>>]
SomeStr(v) == [some |-> TRUE, val |-> v]

\* lines 171-186
get_current_project(r) ==
    IF ~r.notfound /\ r.rc = 0 /\ Strip(r.out) # <<>> /\ Strip(r.out) # UnsetMarker
    THEN SomeStr(Strip(r.out)) ELSE NoneStr

\* Variant of EnvRegion: GCP_REGION is read first.
EnvRegion_GcpRegionFirst(e) ==
    IF EnvTruthy(e, "GCP_REGION") THEN e["GCP_REGION"].val
    ELSE e["GOOGLE_CLOUD_REGION"].val

\* line 231: os.environ.get('GOOGLE_CLOUD_REGION') or os.environ.get('GCP_REGION')
EnvRegion(e) ==
    IF EnvTruthy(e, "GOOGLE_CLOUD_REGION") THEN e["GOOGLE_CLOUD_REGION"].val
    ELSE e["GCP_REGION"].val

\* lines 244-246: the region of the gcloud configuration, if it names one
ConfigRegion(r) ==
    IF ~r.notfound /\ r.rc = 0 /\ Strip(r.out) # <<>> /\ Strip(r.out) # UnsetMarker
    THEN SomeStr(Strip(r.out)) ELSE NoneStr

\* line 249: not response or response == 'y'
AcceptsRegion(resp) == resp = <<>> \/ resp = <<"y">>

\* line 200: response and response != 'y'
KeepsProject(resp) == resp # <<>> /\ resp # <<"y">>

KnownRegions == {UsCentral1, UsEast4, EuropeWest1, EuropeWest4, AsiaSoutheast1}
DefaultRegion == EuropeWest1

\* str.count
Count(str, c) == Cardinality({i \in 1..Len(str) : str[i] = c})

\* line 269
RegionFormatOk(r) == Count(r, "-") >= 2 \/ r \in KnownRegions

\* lines 297-332
check_vertex_api_enabled(r) ==
    ~r.notfound /\ r.rc = 0 /\ r.out = <<"aiplatform.googleapis.com">>

\* Variant of AfterAdc: main goes on whatever check_adc found.
AfterAdc_FallThrough(adc_valid) == "project"

\* lines 348-350: where main goes after check_adc
AfterAdc(adc_valid) == IF adc_valid THEN "project" ELSE "returned"

\* Variant of SummaryExitCode: a failed API check returns 1.
SummaryExitCode_ApiDecides(api_enabled) == IF api_enabled THEN 0 ELSE 1

\* lines 388-397: what main returns after the summary
SummaryExitCode(api_enabled) == IF api_enabled THEN 0 ELSE 0

SetupEnvs ==
    { [n \in EnvNames |->
         IF n = "GOOGLE_APPLICATION_CREDENTIALS" THEN g
         ELSE IF n = "GOOGLE_CLOUD_PROJECT" THEN p
         ELSE IF n = "GOOGLE_CLOUD_REGION" THEN r
         ELSE IF n = "GCP_REGION" THEN q ELSE Unset] :
        g \in {Unset, EnvVal(KeyPath)},
        p \in {Unset, EnvVal(<<>>), EnvVal(P1), EnvVal(P2)},
        r \in {Unset, EnvVal(<<>>), EnvVal(UsEast4)},
        q \in {Unset, EnvVal(<<>>), EnvVal(EuropeWest4)} }

InitSetup ==
    /\ env \in SetupEnvs
    /\ env0 = env
    /\ platform = "linux"
    /\ mpc = "gcloud"
    /\ result = [c \in {Checks[i] : i \in 1..Len(Checks)} |-> "none"]
    /\ cred_type = "None"
    /\ project = <<>>
    /\ region = <<>>
    /\ region_proc = NoProc
    /\ typed_use = NotTyped
    /\ typed_region = NotTyped
    /\ message = ""
    /\ exit_code = -1
    /\ IdleScript /\ IdleFun /\ IdleChain

Done(check, how) == result' = [result EXCEPT ![check] = how]

\* main, lines 339-342
CheckGcloudInstalled ==
    /\ UNCHANGED <<scriptVars, funVars, chainVars>>
    /\ mpc = "gcloud"
    /\ \E r \in VersionProcs :
         IF check_gcloud_installed(r)
         THEN Done("gcloud", "ok") /\ mpc' = "adc" /\ UNCHANGED exit_code
         ELSE Done("gcloud", "failed") /\ mpc' = "returned" /\ exit_code' = 1
    /\ UNCHANGED <<env, env0, platform, cred_type, project, region, region_proc,
                   typed_use, typed_region, message>>

\* main, lines 346-350
CheckAdc ==
    /\ UNCHANGED <<scriptVars, funVars, chainVars>>
    /\ mpc = "adc"
    /\ \E exists \in SUBSET {KeyPath, DefaultAdcPath(env, platform)},
          file \in AdcFiles, n \in Times :
         LET r == check_adc(env, platform, exists, file, n)
         IN IF r.raised # ""
            THEN /\ Done("adc", "raised") /\ mpc' = "crashed"
                 /\ UNCHANGED <<cred_type, exit_code>>
            ELSE /\ Done("adc", IF r.valid THEN "ok" ELSE "failed")
                 /\ cred_type' = r.type
                 /\ mpc' = AfterAdc(r.valid)
                 /\ exit_code' = IF mpc' = "returned" THEN 1 ELSE exit_code
    /\ UNCHANGED <<env, env0, platform, project, region, region_proc, typed_use,
                   typed_region, message>>

\* os.environ['GOOGLE_CLOUD_PROJECT'] = project, line 205
SetProject(p) == env' = [env EXCEPT !["GOOGLE_CLOUD_PROJECT"] = EnvVal(p)]

\* main, lines 355-365, with set_project_env_var up to its prompt
GetProject ==
    /\ UNCHANGED <<scriptVars, funVars, chainVars>>
    /\ mpc = "project"
    /\ \E r \in ProjectProcs :
         LET p == get_current_project(r)
         IN IF ~p.some
            THEN /\ Done("project", "failed") /\ mpc' = "returned" /\ exit_code' = 1
                 /\ UNCHANGED <<project, env>>
            ELSE /\ project' = p.val
                 /\ UNCHANGED exit_code
                 /\ IF EnvTruthy(env, "GOOGLE_CLOUD_PROJECT")
                    THEN IF env["GOOGLE_CLOUD_PROJECT"].val = p.val
                         THEN Done("project", "ok") /\ mpc' = "region" /\ UNCHANGED env
                         ELSE /\ Done("project", "running") /\ mpc' = "project_prompt"
                              /\ UNCHANGED env
                    ELSE Done("project", "ok") /\ mpc' = "region" /\ SetProject(p.val)
    /\ UNCHANGED <<env0, platform, cred_type, region, region_proc, typed_use,
                   typed_region, message>>

\* set_project_env_var, lines 199-225: the answer to "Update to ...? [Y/n]"
AnswerUpdateProject ==
    /\ UNCHANGED <<scriptVars, funVars, chainVars>>
    /\ mpc = "project_prompt"
    /\ \E a \in UseInputs :
         IF KeepsProject(Lower(Strip(a))) THEN UNCHANGED env ELSE SetProject(project)
    /\ Done("project", "ok")
    /\ mpc' = "region"
    /\ UNCHANGED <<env0, platform, cred_type, project, region, region_proc, typed_use,
                   typed_region, message, exit_code>>

\* get_region, lines 231-252, up to its first prompt
GetRegionStart ==
    /\ UNCHANGED <<scriptVars, funVars, chainVars>>
    /\ mpc = "region"
    /\ IF EnvRegion(env) # <<>>
       THEN /\ region' = EnvRegion(env)
            /\ Done("region", "ok") /\ mpc' = "api"
            /\ UNCHANGED region_proc
       ELSE \E r \in RegionProcs :
              /\ region_proc' = r
              /\ Done("region", "running")
              /\ region' = IF ~r.notfound /\ r.rc = 0 /\ Strip(r.out) # <<>>
                           THEN Strip(r.out) ELSE <<>>
              /\ mpc' = IF ConfigRegion(r).some THEN "region_confirm" ELSE "region_prompt"
    /\ UNCHANGED <<env, env0, platform, cred_type, project, typed_use, typed_region,
                   message, exit_code>>

\* get_region, lines 248-250: the answer to "Use this region? [Y/n]"
AnswerUseRegion ==
    /\ UNCHANGED <<scriptVars, funVars, chainVars>>
    /\ mpc = "region_confirm"
    /\ \E a \in UseInputs :
         /\ typed_use' = a
         /\ IF AcceptsRegion(Lower(Strip(a)))
            THEN Done("region", "ok") /\ mpc' = "api"
            ELSE mpc' = "region_prompt" /\ UNCHANGED result
    /\ UNCHANGED <<env, env0, platform, cred_type, project, region, region_proc,
                   typed_region, message, exit_code>>

\* get_region, lines 264-266: one input at "Enter your region"
ReadRegion ==
    /\ UNCHANGED <<scriptVars, funVars, chainVars>>
    /\ mpc = "region_prompt"
    /\ \E a \in RegionInputs :
         /\ typed_region' = a
         /\ region' = IF Strip(a) = <<>> THEN DefaultRegion ELSE Strip(a)
    /\ mpc' = "region_validate"
    /\ UNCHANGED <<env, env0, platform, result, cred_type, project, region_proc,
                   typed_use, message, exit_code>>

\* get_region, lines 269-294: the format check, then the environment write
ValidateRegion ==
    /\ UNCHANGED <<scriptVars, funVars, chainVars>>
    /\ mpc = "region_validate"
    /\ IF RegionFormatOk(region)
       THEN /\ env' = [env EXCEPT !["GOOGLE_CLOUD_REGION"] = EnvVal(region)]
            /\ message' = "set_region"
            /\ Done("region", "ok") /\ mpc' = "api"
       ELSE /\ message' = "region_format_incorrect"
            /\ mpc' = "region_prompt"
            /\ UNCHANGED <<env, result>>
    /\ UNCHANGED <<env0, platform, cred_type, project, region, region_proc, typed_use,
                   typed_region, exit_code>>

\* main, lines 378-397
CheckVertexApi ==
    /\ UNCHANGED <<scriptVars, funVars, chainVars>>
    /\ mpc = "api"
    /\ \E r \in ApiProcs :
         LET api_enabled == check_vertex_api_enabled(r)
         IN /\ Done("api", IF api_enabled THEN "ok" ELSE "failed")
            /\ message' = IF api_enabled THEN "all_checks_passed"
                          ELSE "please_enable_vertex_api"
            /\ exit_code' = SummaryExitCode(api_enabled)
    /\ mpc' = "returned"
    /\ UNCHANGED <<env, env0, platform, cred_type, project, region, region_proc,
                   typed_use, typed_region>>

NextSetup ==
    \/ CheckGcloudInstalled
    \/ CheckAdc
    \/ GetProject
    \/ AnswerUpdateProject
    \/ GetRegionStart
    \/ AnswerUseRegion
    \/ ReadRegion
    \/ ValidateRegion
    \/ CheckVertexApi

SpecSetup == InitSetup /\ [][NextSetup]_vars

(***************************************************************************)
(* Properties of gcloud_setup.main and get_region                          *)
(***************************************************************************)
FirstFour == {"gcloud", "adc", "project", "region"}

\* A check has a result only if all checks before it are ok.
C3_EarlierChecksOk ==
    \A i \in 1..Len(Checks) :
       result[Checks[i]] # "none" => \A j \in 1..(i - 1) : result[Checks[j]] = "ok"

C4_ExitCode ==
    mpc = "returned" =>
       /\ exit_code \in {0, 1}
       /\ exit_code = 1 <=> \E c \in FirstFour : result[c] = "failed"
       /\ exit_code = 0 =>
             /\ \A c \in FirstFour : result[c] = "ok"
             /\ result["api"] \in {"ok", "failed"}
             /\ message = IF result["api"] = "ok" THEN "all_checks_passed"
                          ELSE "please_enable_vertex_api"

\* the API check failed and main still returned 0
C4_Witness ==
    mpc = "returned" /\ exit_code = 0 /\ result["api"] = "failed"

\* An environment variable set to a value; the configured region offered
\* and accepted.
C7_HasValue(v) == v.set /\ v.val # <<>>

C7_ConfigAccepted ==
    /\ region_proc = [notfound |-> FALSE, rc |-> 0, out |-> UsEast4 \o <<"\n">>]
    /\ typed_use \in {<<>>, <<"y">>, <<"Y", " ">>}

\* C7: the region is GOOGLE_CLOUD_REGION if that is set to a value, else
\* GCP_REGION if that is, else the region of the gcloud configuration if
\* there is one and the user answered with nothing or y, else what was
\* entered at the prompt; GOOGLE_CLOUD_REGION is written in the last case
\* only and is otherwise what it was when the tool started.
C7_RegionPrecedence ==
    LET g == env0["GOOGLE_CLOUD_REGION"]
        q == env0["GCP_REGION"]
    IN IF result["region"] = "ok"
       THEN IF C7_HasValue(g)
            THEN region = g.val /\ env["GOOGLE_CLOUD_REGION"] = g
            ELSE IF C7_HasValue(q)
            THEN region = q.val /\ env["GOOGLE_CLOUD_REGION"] = g
            ELSE IF C7_ConfigAccepted
            THEN region = UsEast4 /\ env["GOOGLE_CLOUD_REGION"] = g
            ELSE /\ typed_region # NotTyped
                 /\ region = IF Strip(typed_region) = <<>> THEN EuropeWest1
                             ELSE Strip(typed_region)
                 /\ env["GOOGLE_CLOUD_REGION"] = [set |-> TRUE, val |-> region]
       ELSE env["GOOGLE_CLOUD_REGION"] = g

\* the configured region was offered and declined, the region was typed
C7_Witness ==
    /\ result["region"] = "ok"
    /\ typed_use = <<"n">>
    /\ typed_region = UsCentral1
    /\ env["GOOGLE_CLOUD_REGION"] = [set |-> TRUE, val |-> UsCentral1]
    /\ ~env0["GOOGLE_CLOUD_REGION"].set

\* The format the prompt asks for, "like 'us-central1'": lowercase letters,
\* one hyphen, lowercase letters, digits at the end.
C8_Letters ==
    {"a", "b", "c", "e", "l", "n", "o", "p", "r", "s", "t", "u", "w", "h", "i"}
C8_Digits == {"1", "4"}

C8_InFormat(str) ==
    /\ Len(str) >= 4
    /\ Cardinality({i \in 1..Len(str) : str[i] = "-"}) = 1
    /\ str[Len(str)] \in C8_Digits
    /\ str[1] \in C8_Letters
    /\ \A i \in 1..(Len(str) - 1) :
          /\ str[i] \in C8_Letters \cup {"-"}
          /\ str[i] = "-" => str[i + 1] \in C8_Letters

\* C8: of what is entered at the region prompt (whitespace stripped), the
\* empty string is taken as europe-west1, a region in the format asked for
\* is accepted as it is, and anything else is rejected with the format
\* warning and asked for again.
C8_RegionPromptFormat ==
    LET entered == Strip(typed_region)
        rejected == mpc = "region_prompt" /\ message = "region_format_incorrect"
        accepted == mpc = "api" /\ message = "set_region"
    IN typed_region # NotTyped =>
          /\ rejected => entered # <<>> /\ ~C8_InFormat(entered)
          /\ accepted =>
                \/ entered = <<>> /\ region = EuropeWest1
                \/ C8_InFormat(entered) /\ region = entered

(***************************************************************************)
(* tests/test_anthropic.py, test_tools: a chain whose tool pops names      *)
(***************************************************************************)
NamePool == {"Charles", "Sammy"}

\* The tool could not run: the list was empty.
ToolError == "Error: pop from empty list"

\* Variant of pelican_name_generator: names.pop().
pelican_name_generator_PopLast(l) ==
    IF l = <<>> THEN [output |-> ToolError, rest |-> l]
    ELSE [output |-> l[Len(l)], rest |-> SubSeq(l, 1, Len(l) - 1)]

\* lambda: names.pop(0)
pelican_name_generator(l) ==
    IF l = <<>> THEN [output |-> ToolError, rest |-> l]
    ELSE [output |-> Head(l), rest |-> Tail(l)]

\* One response of the chain: the tool calls it made (their identifiers),
\* the tool results its prompt carried, and whether it is the final text.
Response(calls, tool_results, text) ==
    [tool_calls |-> calls, tool_results |-> tool_results, text |-> text]

ToolResult(id, output) == [tool_call_id |-> id, output |-> output]

InitChain ==
    /\ names \in SeqsUpTo(NamePool, MaxNames)
    /\ names0 = names
    /\ responses = <<>>
    /\ results = <<>>
    /\ cpc = "model"
    /\ next_id = 0
    /\ IdleScript /\ IdleSetup /\ IdleFun

\* The model answers the prompt, which carries the collected tool results,
\* with one or more tool calls.
RespondWithToolCalls ==
    /\ UNCHANGED <<scriptVars, setupVars, funVars>>
    /\ cpc = "model"
    /\ Len(responses) < MaxResponses - 1
    /\ \E k \in 1..MaxCalls :
         /\ responses' = Append(responses,
                Response([i \in 1..k |-> next_id + i], results, FALSE))
         /\ next_id' = next_id + k
    /\ results' = <<>>
    /\ cpc' = "tools"
    /\ UNCHANGED <<names, names0>>

\* The chain runs the next tool call of the last response and keeps its
\* result, under the call's identifier, for the next prompt.
ExecuteToolCall ==
    /\ UNCHANGED <<scriptVars, setupVars, funVars>>
    /\ cpc = "tools"
    /\ LET calls == responses[Len(responses)].tool_calls
           i == Len(results) + 1
           r == pelican_name_generator(names)
       IN /\ results' = Append(results, ToolResult(calls[i], r.output))
          /\ names' = r.rest
          /\ cpc' = IF i = Len(calls) THEN "model" ELSE "tools"
    /\ UNCHANGED <<names0, responses, next_id>>

\* The model answers the prompt with the final text.
RespondWithText ==
    /\ UNCHANGED <<scriptVars, setupVars, funVars>>
    /\ cpc = "model"
    /\ responses' = Append(responses, Response(<<>>, results, TRUE))
    /\ results' = <<>>
    /\ cpc' = "done"
    /\ UNCHANGED <<names, names0, next_id>>

NextChain ==
    \/ RespondWithToolCalls
    \/ ExecuteToolCall
    \/ RespondWithText

SpecChain == InitChain /\ [][NextChain]_vars

\* The outputs of the tool results in the prompt of response r.
C9_Outputs(r) == [k \in 1..Len(r.tool_results) |-> r.tool_results[k].output]

====
